---- MODULE Spec2Model ----
(***************************************************************************)
(* OpenFlow 1.0 action records (ofp/v0x01/common/action.py).               *)
(*                                                                         *)
(* The module declares the action classes: each is a GenericStruct with an *)
(* ordered list of typed class attributes and an __init__ that stores its  *)
(* arguments, every one defaulting to None.  The primitive field types     *)
(* (basic_types) and the record engine (base.GenericStruct) are imported   *)
(* from ..foundation; they are modelled here from sections 4.1, 4.2 and    *)
(* 4.4 of the specification.                                               *)
(*                                                                         *)
(* A Python value that may be None is held as a sequence of length 0       *)
(* (None) or 1 (the value).  TLC integers are 32-bit signed, so the value  *)
(* of a UBInt32 attribute, an unbounded Python int n, is held as the pair  *)
(* <<hi, lo>> with n = hi * 65536 + lo and 0 <= lo < 65536.                *)
(***************************************************************************)
EXTENDS Integers, Sequences, FiniteSets, TLC

VARIABLES pc, cls, rec, wire, buf, off, dec

vars == <<pc, cls, rec, wire, buf, off, dec>>

\* Largest offset at which a record is placed in a received buffer.
MaxOffset == 1

(***************************************************************************)
(* class ActionType(enum.Enum)                                             *)
(***************************************************************************)
OFPAT_OUTPUT == 0
OFPAT_SET_VLAN_VID == 1
OFPAT_SET_VLAN_PCP == 2
OFPAT_STRIP_VLAN == 3
OFPAT_SET_DL_SRC == 4
OFPAT_SET_DL_DST == 5
OFPAT_SET_NW_SRC == 6
OFPAT_SET_NW_DST == 7
OFPAT_SET_NW_TOS == 8
OFPAT_SET_TP_SRC == 9
OFPAT_SET_TP_DST == 10
OFPAT_ENQUEUE == 11
OFPAT_VENDOR == 65535

\* A mutant of the enumeration: OFPAT_STRIP_VLAN is missing.
ActionType_NoStripVlan == {OFPAT_OUTPUT, OFPAT_SET_VLAN_VID, OFPAT_SET_VLAN_PCP, OFPAT_SET_DL_SRC, OFPAT_SET_DL_DST, OFPAT_SET_NW_SRC, OFPAT_SET_NW_DST, OFPAT_SET_NW_TOS, OFPAT_SET_TP_SRC, OFPAT_SET_TP_DST, OFPAT_ENQUEUE, OFPAT_VENDOR}

\* The values of the members of ActionType.
ActionType == {OFPAT_OUTPUT, OFPAT_SET_VLAN_VID, OFPAT_SET_VLAN_PCP, OFPAT_STRIP_VLAN, OFPAT_SET_DL_SRC, OFPAT_SET_DL_DST, OFPAT_SET_NW_SRC, OFPAT_SET_NW_DST, OFPAT_SET_NW_TOS, OFPAT_SET_TP_SRC, OFPAT_SET_TP_DST, OFPAT_ENQUEUE, OFPAT_VENDOR}

(***************************************************************************)
(* Python values                                                           *)
(***************************************************************************)
None == <<>>
Some(v) == <<v>>
IsNone(x) == Len(x) = 0
Val(x) == x[1]

(***************************************************************************)
(* basic_types: the primitive field types (specification 4.1)              *)
(***************************************************************************)
UBInt8 == [kind |-> "uint", width |-> 1]
UBInt16 == [kind |-> "uint", width |-> 2]
UBInt32 == [kind |-> "uint", width |-> 4]
UBInt8Array(length) == [kind |-> "array", width |-> length]

\* base.OFP_ETH_ALEN: the length of an Ethernet address.
OFP_ETH_ALEN == 6

(***************************************************************************)
(* The class attributes of each action class, in declaration order.        *)
(***************************************************************************)
ActionHeader_fields == << <<"ofpat_type", UBInt16>>, <<"length", UBInt16>>, <<"pad", UBInt8Array(4)>> >>

\* Mutants of ActionOutput's attributes: max_length is not declared; port
\* and max_length are declared in the other order.
ActionOutput_fields_NoMaxLength == << <<"ofpat_type", UBInt16>>, <<"length", UBInt16>>, <<"port", UBInt16>> >>
ActionOutput_fields_Swapped == << <<"ofpat_type", UBInt16>>, <<"length", UBInt16>>, <<"max_length", UBInt16>>, <<"port", UBInt16>> >>

ActionOutput_fields == << <<"ofpat_type", UBInt16>>, <<"length", UBInt16>>, <<"port", UBInt16>>, <<"max_length", UBInt16>> >>

\* Mutants of ActionEnqueue's attributes: pad has 4 bytes; queue_id is not
\* declared.
ActionEnqueue_fields_Pad4 == << <<"ofpat_type", UBInt16>>, <<"length", UBInt16>>, <<"port", UBInt16>>, <<"pad", UBInt8Array(4)>>, <<"queue_id", UBInt32>> >>
ActionEnqueue_fields_NoQueue == << <<"ofpat_type", UBInt16>>, <<"length", UBInt16>>, <<"port", UBInt16>>, <<"pad", UBInt8Array(6)>> >>

ActionEnqueue_fields == << <<"ofpat_type", UBInt16>>, <<"length", UBInt16>>, <<"port", UBInt16>>, <<"pad", UBInt8Array(6)>>, <<"queue_id", UBInt32>> >>

ActionVlanVid_fields == << <<"ofpat_type", UBInt16>>, <<"length", UBInt16>>, <<"vlan_id", UBInt16>>, <<"pad2", UBInt8Array(2)>> >>

ActionVlanPCP_fields == << <<"ofpat_type", UBInt16>>, <<"length", UBInt16>>, <<"vlan_pcp", UBInt8>>, <<"pad", UBInt8Array(3)>> >>

ActionDLAddr_fields == << <<"ofpat_type", UBInt16>>, <<"length", UBInt16>>, <<"dl_addr", UBInt8Array(OFP_ETH_ALEN)>>, <<"pad", UBInt8Array(6)>> >>

ActionNWAddr_fields == << <<"ofpat_type", UBInt16>>, <<"length", UBInt16>>, <<"nw_addr", UBInt32>> >>

ActionNWTos_fields == << <<"ofpat_type", UBInt16>>, <<"length", UBInt16>>, <<"nw_tos", UBInt8>>, <<"pad", UBInt8Array(3)>> >>

ActionTPPort_fields == << <<"ofpat_type", UBInt16>>, <<"length", UBInt16>>, <<"tp_port", UBInt16>>, <<"pad", UBInt8Array(2)>> >>

ActionVendorHeader_fields == << <<"ofpat_type", UBInt16>>, <<"length", UBInt16>>, <<"vendor", UBInt32>> >>

Classes == {"ActionHeader", "ActionOutput", "ActionEnqueue", "ActionVlanVid", "ActionVlanPCP", "ActionDLAddr", "ActionNWAddr", "ActionNWTos", "ActionTPPort", "ActionVendorHeader"}

\* The attributes the record engine reflects over for class c.
Fields(c) ==
  CASE c = "ActionHeader" -> ActionHeader_fields
    [] c = "ActionOutput" -> ActionOutput_fields
    [] c = "ActionEnqueue" -> ActionEnqueue_fields
    [] c = "ActionVlanVid" -> ActionVlanVid_fields
    [] c = "ActionVlanPCP" -> ActionVlanPCP_fields
    [] c = "ActionDLAddr" -> ActionDLAddr_fields
    [] c = "ActionNWAddr" -> ActionNWAddr_fields
    [] c = "ActionNWTos" -> ActionNWTos_fields
    [] c = "ActionTPPort" -> ActionTPPort_fields
    [] c = "ActionVendorHeader" -> ActionVendorHeader_fields

(***************************************************************************)
(* The constructors: each stores its arguments as given.                   *)
(***************************************************************************)
ActionHeader_init(ofpat_type, length, pad) == [ofpat_type |-> ofpat_type, length |-> length, pad |-> pad]

ActionOutput_init(ofpat_type, length, port, max_length) == [ofpat_type |-> ofpat_type, length |-> length, port |-> port, max_length |-> max_length]

ActionEnqueue_init(ofpat_type, length, port, pad, queue_id) == [ofpat_type |-> ofpat_type, length |-> length, port |-> port, pad |-> pad, queue_id |-> queue_id]

ActionVlanVid_init(ofpat_type, length, vlan_id, pad2) == [ofpat_type |-> ofpat_type, length |-> length, vlan_id |-> vlan_id, pad2 |-> pad2]

ActionVlanPCP_init(ofpat_type, length, vlan_pcp, pad) == [ofpat_type |-> ofpat_type, length |-> length, vlan_pcp |-> vlan_pcp, pad |-> pad]

ActionDLAddr_init(ofpat_type, length, dl_addr, pad) == [ofpat_type |-> ofpat_type, length |-> length, dl_addr |-> dl_addr, pad |-> pad]

ActionNWAddr_init(ofpat_type, length, nw_addr) == [ofpat_type |-> ofpat_type, length |-> length, nw_addr |-> nw_addr]

ActionNWTos_init(ofpat_type, length, nw_tos, pad) == [ofpat_type |-> ofpat_type, length |-> length, nw_tos |-> nw_tos, pad |-> pad]

ActionTPPort_init(ofpat_type, length, tp_port, pad) == [ofpat_type |-> ofpat_type, length |-> length, tp_port |-> tp_port, pad |-> pad]

ActionVendorHeader_init(ofpat_type, length, vendor) == [ofpat_type |-> ofpat_type, length |-> length, vendor |-> vendor]

(***************************************************************************)
(* basic_types: packing and unpacking one value (specification 4.1).       *)
(* Integers are unsigned and big-endian; an array is copied verbatim.      *)
(***************************************************************************)
Ok(bytes) == [status |-> "ok", bytes |-> bytes]
Fail(error) == [status |-> error, bytes |-> <<>>]

\* The w bytes of v, most significant first.
BigEndian(v, w) == [i \in 1..w |-> (v \div (256 ^ (w - i))) % 256]

\* The integer held in the w bytes of b that start at offset pos (0-based).
FromBigEndian(b, pos, w) == IF w = 1 THEN b[pos + 1] ELSE b[pos + 1] * 256 + b[pos + 2]

UIntInRange(type, v) ==
  IF type.width = 4 THEN v[1] >= 0 /\ v[1] < 65536 ELSE v >= 0 /\ v < 256 ^ type.width

UIntPack(type, v) ==
  IF ~UIntInRange(type, v) THEN Fail("RangeError")
  ELSE IF type.width = 4 THEN Ok(BigEndian(v[1], 2) \o BigEndian(v[2], 2))
  ELSE Ok(BigEndian(v, type.width))

UIntUnpack(type, b, pos) ==
  IF type.width = 4 THEN <<FromBigEndian(b, pos, 2), FromBigEndian(b, pos + 2, 2)>>
  ELSE FromBigEndian(b, pos, type.width)

ArrayPack(type, v) == IF Len(v) # type.width THEN Fail("LengthMismatchError") ELSE Ok(v)

ArrayUnpack(type, b, pos) == SubSeq(b, pos + 1, pos + type.width)

FieldPack(type, v) == IF type.kind = "uint" THEN UIntPack(type, v) ELSE ArrayPack(type, v)

FieldUnpack(type, b, pos) == IF type.kind = "uint" THEN UIntUnpack(type, b, pos) ELSE ArrayUnpack(type, b, pos)

(***************************************************************************)
(* base.GenericStruct: the record engine (specification 4.2).              *)
(***************************************************************************)
RECURSIVE SizeFrom(_, _)
SizeFrom(fs, i) == IF i > Len(fs) THEN 0 ELSE fs[i][2].width + SizeFrom(fs, i + 1)

\* size(recordType): the sum of the declared fields' widths.
Size(c) == SizeFrom(Fields(c), 1)

RECURSIVE PackFrom(_, _, _, _)
PackFrom(fs, r, i, acc) ==
  IF i > Len(fs) THEN Ok(acc)
  ELSE LET one == FieldPack(fs[i][2], Val(r[fs[i][1]]))
       IN IF one.status # "ok" THEN Fail(one.status)
          ELSE PackFrom(fs, r, i + 1, acc \o one.bytes)

\* encode(instance): fails fast when a field was never assigned, else
\* concatenates the fields' bytes in declaration order, and the first field
\* that fails to encode fails the whole record.
Pack(c, r) ==
  LET fs == Fields(c)
  IN IF \E i \in 1..Len(fs) : IsNone(r[fs[i][1]]) THEN Fail("IncompleteRecordError")
     ELSE PackFrom(fs, r, 1, <<>>)

RECURSIVE UnpackFrom(_, _, _, _, _, _)
UnpackFrom(fs, b, o, i, pos, acc) ==
  IF i > Len(fs) THEN [status |-> "ok", rec |-> acc, offset |-> pos]
  ELSE IF Len(b) - pos < fs[i][2].width
       THEN [status |-> "TruncatedBufferError", rec |-> <<>>, offset |-> o]
       ELSE UnpackFrom(fs, b, o, i + 1, pos + fs[i][2].width, acc @@ (fs[i][1] :> Some(FieldUnpack(fs[i][2], b, pos))))

\* decode(buffer, offset): reads each field at the running offset; returns
\* the populated instance and the new offset, or the error alone.
Unpack(c, b, o) == UnpackFrom(Fields(c), b, o, 1, o, <<>>)

(***************************************************************************)
(* The dispatch table and the decoding of an action of unknown type        *)
(* (specification 4.4).                                                    *)
(***************************************************************************)
DispatchTable(tag) ==
  CASE tag = OFPAT_OUTPUT -> "ActionOutput"
    [] tag = OFPAT_SET_VLAN_VID -> "ActionVlanVid"
    [] tag = OFPAT_SET_VLAN_PCP -> "ActionVlanPCP"
    [] tag = OFPAT_STRIP_VLAN -> "ActionHeader"
    [] tag \in {OFPAT_SET_DL_SRC, OFPAT_SET_DL_DST} -> "ActionDLAddr"
    [] tag \in {OFPAT_SET_NW_SRC, OFPAT_SET_NW_DST} -> "ActionNWAddr"
    [] tag = OFPAT_SET_NW_TOS -> "ActionNWTos"
    [] tag \in {OFPAT_SET_TP_SRC, OFPAT_SET_TP_DST} -> "ActionTPPort"
    [] tag = OFPAT_ENQUEUE -> "ActionEnqueue"
    [] tag = OFPAT_VENDOR -> "ActionVendorHeader"

DecodeError(error, o) == [status |-> error, rec |-> <<>>, offset |-> o]

\* After the variant's decode: the declared length must be the variant's
\* size; a vendor action's may be any multiple of 8 from 8 on, and its
\* trailing bytes are skipped unread.
CheckLength(c, got, b, o) ==
  LET declared == Val(got.rec["length"])
  IN IF c # "ActionVendorHeader"
     THEN IF declared # Size(c) THEN DecodeError("LengthMismatchError", o) ELSE got
     ELSE IF declared < 8 \/ declared % 8 # 0 THEN DecodeError("LengthMismatchError", o)
     ELSE IF Len(b) - o < declared THEN DecodeError("TruncatedBufferError", o)
     ELSE [got EXCEPT !.offset = o + declared]

DecodeAction(b, o) ==
  IF Len(b) - o < 4 THEN DecodeError("TruncatedBufferError", o)
  ELSE LET tag == FromBigEndian(b, o, 2)
       IN IF tag \notin ActionType THEN DecodeError("UnknownTypeError", o)
          ELSE LET c == DispatchTable(tag)
                   got == Unpack(c, b, o)
               IN IF got.status # "ok" THEN got ELSE CheckLength(c, got, b, o)

(***************************************************************************)
(* The arguments the constructors are called with.                         *)
(***************************************************************************)
Zeros(n) == [i \in 1..n |-> 0]
Count(n) == [i \in 1..n |-> i]

\* None, every member of ActionType, a value outside it, a value over 16 bits.
TagArgs == {None} \cup {Some(t) : t \in ActionType \cup {12, 65536}}
LengthArgs == {None, Some(8), Some(16)}
VendorLengthArgs == {None, Some(8), Some(12), Some(16)}
\* None, all zero, not zero, one byte short.
PadArgs(n) == {None, Some(Zeros(n)), Some(Count(n)), Some(Zeros(n - 1))}
PortArgs == {None, Some(5), Some(65535), Some(65536)}
MaxLengthArgs == {None, Some(0), Some(65535), Some(70000)}
QueuePortArgs == {None, Some(1), Some(65536)}
VlanVidArgs == {None, Some(100), Some(65535), Some(65536)}
UInt8Args == {None, Some(-1), Some(7), Some(255), Some(256)}
UInt32Args == {None, Some(<<49320, 1>>), Some(<<65535, 65535>>), Some(<<65536, 0>>), Some(<<-1, 65535>>)}
DLAddrArgs == {None, Some(<<170, 187, 204, 221, 238, 255>>), Some(<<170, 187, 204, 221, 238>>)}

(***************************************************************************)
(* The state machine: an action is constructed, packed, its bytes arrive   *)
(* in a buffer (whole or cut short, at an offset, possibly followed by     *)
(* more bytes), and the buffer is decoded, by the class's own unpack or by *)
(* the dispatch on the type field.                                         *)
(***************************************************************************)
NoWire == [status |-> "none", bytes |-> <<>>]
NoDec == [by |-> "none", status |-> "none", rec |-> <<>>, offset |-> 0]

Init ==
  /\ pc = "start"
  /\ cls = "none"
  /\ rec = <<>>
  /\ wire = NoWire
  /\ buf = <<>>
  /\ off = 0
  /\ dec = NoDec

Constructed(c, r) ==
  /\ pc' = "constructed"
  /\ cls' = c
  /\ rec' = r
  /\ UNCHANGED <<wire, buf, off, dec>>

NewActionHeader ==
  /\ pc = "start"
  /\ \E t \in TagArgs, l \in LengthArgs, p \in PadArgs(4) : Constructed("ActionHeader", ActionHeader_init(t, l, p))

NewActionOutput ==
  /\ pc = "start"
  /\ \E t \in TagArgs, l \in LengthArgs, p \in PortArgs, m \in MaxLengthArgs : Constructed("ActionOutput", ActionOutput_init(t, l, p, m))

NewActionEnqueue ==
  /\ pc = "start"
  /\ \E t \in TagArgs, l \in LengthArgs, p \in QueuePortArgs, d \in PadArgs(6), q \in UInt32Args : Constructed("ActionEnqueue", ActionEnqueue_init(t, l, p, d, q))

NewActionVlanVid ==
  /\ pc = "start"
  /\ \E t \in TagArgs, l \in LengthArgs, v \in VlanVidArgs, d \in PadArgs(2) : Constructed("ActionVlanVid", ActionVlanVid_init(t, l, v, d))

NewActionVlanPCP ==
  /\ pc = "start"
  /\ \E t \in TagArgs, l \in LengthArgs, v \in UInt8Args, d \in PadArgs(3) : Constructed("ActionVlanPCP", ActionVlanPCP_init(t, l, v, d))

NewActionDLAddr ==
  /\ pc = "start"
  /\ \E t \in TagArgs, l \in LengthArgs, a \in DLAddrArgs, d \in PadArgs(6) : Constructed("ActionDLAddr", ActionDLAddr_init(t, l, a, d))

NewActionNWAddr ==
  /\ pc = "start"
  /\ \E t \in TagArgs, l \in LengthArgs, a \in UInt32Args : Constructed("ActionNWAddr", ActionNWAddr_init(t, l, a))

NewActionNWTos ==
  /\ pc = "start"
  /\ \E t \in TagArgs, l \in LengthArgs, v \in UInt8Args, d \in PadArgs(3) : Constructed("ActionNWTos", ActionNWTos_init(t, l, v, d))

NewActionTPPort ==
  /\ pc = "start"
  /\ \E t \in TagArgs, l \in LengthArgs, p \in PortArgs, d \in PadArgs(2) : Constructed("ActionTPPort", ActionTPPort_init(t, l, p, d))

NewActionVendorHeader ==
  /\ pc = "start"
  /\ \E t \in TagArgs, l \in VendorLengthArgs, v \in UInt32Args : Constructed("ActionVendorHeader", ActionVendorHeader_init(t, l, v))

DoPack ==
  /\ pc = "constructed"
  /\ pc' = "packed"
  /\ wire' = Pack(cls, rec)
  /\ UNCHANGED <<cls, rec, buf, off, dec>>

\* The o bytes that precede the record in the buffer.
Before(o) == [i \in 1..o |-> 255]
\* The bytes that follow a whole record: a vendor payload, or the next action.
After == <<0, 0, 0, 8, 0, 9, 0, 0>>

Receive ==
  /\ pc = "packed"
  /\ wire.status = "ok"
  /\ \E o \in 0..MaxOffset, k \in 0..Len(wire.bytes), more \in BOOLEAN :
       /\ more => k = Len(wire.bytes)
       /\ buf' = Before(o) \o SubSeq(wire.bytes, 1, k) \o (IF more THEN After ELSE <<>>)
       /\ off' = o
  /\ pc' = "received"
  /\ UNCHANGED <<cls, rec, wire, dec>>

DoUnpack ==
  /\ pc = "received"
  /\ pc' = "unpacked"
  /\ dec' = [by |-> "unpack"] @@ Unpack(cls, buf, off)
  /\ UNCHANGED <<cls, rec, wire, buf, off>>

DoDecodeAction ==
  /\ pc = "received"
  /\ pc' = "unpacked"
  /\ dec' = [by |-> "dispatch"] @@ DecodeAction(buf, off)
  /\ UNCHANGED <<cls, rec, wire, buf, off>>

Next ==
  \/ NewActionHeader
  \/ NewActionOutput
  \/ NewActionEnqueue
  \/ NewActionVlanVid
  \/ NewActionVlanPCP
  \/ NewActionDLAddr
  \/ NewActionNWAddr
  \/ NewActionNWTos
  \/ NewActionTPPort
  \/ NewActionVendorHeader
  \/ DoPack
  \/ Receive
  \/ DoUnpack
  \/ DoDecodeAction

Spec == Init /\ [][Next]_vars

(***************************************************************************)
(* What the specification says of the records, for the properties below.   *)
(***************************************************************************)
\* The fixed size of each variant in the table of section 4.4.
VariantSize(c) == IF c \in {"ActionEnqueue", "ActionDLAddr"} THEN 16 ELSE 8

\* The closed set of discriminants of section 4.3.
ClosedTagSet == (0..11) \cup {65535}

\* The byte positions (1-based) of the reserved padding of each variant.
PadPositions(c) ==
  CASE c = "ActionHeader" -> 5..8
    [] c = "ActionEnqueue" -> 7..12
    [] c \in {"ActionVlanVid", "ActionTPPort"} -> 7..8
    [] c \in {"ActionVlanPCP", "ActionNWTos"} -> 6..8
    [] c = "ActionDLAddr" -> 11..16
    [] OTHER -> {}

Packed == pc \in {"packed", "received", "unpacked"}

\* Field i of class c holds, in r, an integer outside its width.
OutOfRange(c, r, i) ==
  LET f == Fields(c)[i]
  IN f[2].kind = "uint" /\ ~IsNone(r[f[1]]) /\ ~UIntInRange(f[2], Val(r[f[1]]))

\* Field i of class c holds, in r, an array that has not the declared length.
WrongLength(c, r, i) ==
  LET f == Fields(c)[i]
  IN f[2].kind = "array" /\ ~IsNone(r[f[1]]) /\ Len(Val(r[f[1]])) # f[2].width

\* A validly constructed record: every field assigned, every integer within
\* its width, every array of its declared length.
ValidRecord(c, r) ==
  \A i \in 1..Len(Fields(c)) :
    ~IsNone(r[Fields(c)[i][1]]) /\ ~OutOfRange(c, r, i) /\ ~WrongLength(c, r, i)

\* The buffer holds, from the offset on, all the bytes that were packed.
WholeRecord == Len(buf) - off >= Len(wire.bytes)

(***************************************************************************)
(* C1: round trip.  For a validly constructed record of any class, pack    *)
(* succeeds, and unpacking the packed bytes (at any offset, followed by    *)
(* more bytes or not) succeeds and returns a record equal to the original, *)
(* field by field, having consumed size(r) bytes.                          *)
(***************************************************************************)
C1_RoundTrip ==
  /\ (Packed /\ ValidRecord(cls, rec)) => wire.status = "ok"
  /\ (pc = "unpacked" /\ dec.by = "unpack" /\ ValidRecord(cls, rec) /\ WholeRecord)
       => /\ dec.status = "ok"
          /\ dec.rec = rec
          /\ dec.offset - off = Size(cls)

C1_Witness ==
  /\ pc = "unpacked" /\ dec.by = "unpack" /\ off = 0
  /\ rec = ActionEnqueue_init(Some(11), Some(16), Some(1), Some(Zeros(6)), Some(<<49320, 1>>))
  /\ buf = <<0, 11, 0, 16, 0, 1, 0, 0, 0, 0, 0, 0, 192, 168, 0, 1>>
  /\ dec.status = "ok" /\ dec.rec = rec /\ dec.offset = 16

(***************************************************************************)
(* C2: declared length.  Every non-vendor record that pack accepts or that *)
(* a decode returns has a length field equal to the number of bytes it     *)
(* occupies, and a vendor record's is at least 8 and a multiple of 8; a    *)
(* record whose length differs is refused with LengthMismatchError.        *)
(***************************************************************************)
DeclaredLengthOk(c, r, n) ==
  IF c = "ActionVendorHeader" THEN Val(r["length"]) >= 8 /\ Val(r["length"]) % 8 = 0
  ELSE Val(r["length"]) = n

C2_DeclaredLength ==
  /\ (Packed /\ wire.status = "ok") => DeclaredLengthOk(cls, rec, Len(wire.bytes))
  /\ (Packed /\ ValidRecord(cls, rec) /\ ~DeclaredLengthOk(cls, rec, VariantSize(cls)))
       => wire.status = "LengthMismatchError"
  /\ (pc = "unpacked" /\ dec.by = "unpack" /\ dec.status = "ok")
       => DeclaredLengthOk(cls, dec.rec, VariantSize(cls))

(***************************************************************************)
(* C3: size.  The size of every class, the sum of the widths of its        *)
(* declared fields, is the one of the variant table and a multiple of 8,   *)
(* and every successful pack returns exactly that many bytes.              *)
(***************************************************************************)
C3_Size ==
  /\ \A c \in Classes : Size(c) = VariantSize(c) /\ Size(c) % 8 = 0
  /\ (Packed /\ wire.status = "ok") => Len(wire.bytes) = VariantSize(cls)

C3_Witness ==
  /\ pc = "packed" /\ wire.status = "ok"
  /\ cls = "ActionDLAddr" /\ Len(wire.bytes) = 16

(***************************************************************************)
(* C4: dispatch.  As claimed: decoding a buffer of unknown type whose      *)
(* first 16-bit field is outside {0..11, 0xFFFF} fails with                *)
(* UnknownTypeError and returns no record, and a tag inside the set never  *)
(* fails with UnknownTypeError.                                            *)
(***************************************************************************)
DispatchAnswer(tag) ==
  /\ tag \notin ClosedTagSet => (dec.status = "UnknownTypeError" /\ dec.rec = <<>>)
  /\ tag \in ClosedTagSet => dec.status # "UnknownTypeError"

C5_Truncation ==
  (pc = "unpacked" /\ dec.by = "unpack" /\ Len(buf) - off < VariantSize(cls))
    => /\ dec.status = "TruncatedBufferError"
       /\ dec.rec = <<>>
       /\ dec.offset = off

C5_Witness ==
  /\ pc = "unpacked" /\ dec.by = "unpack"
  /\ cls = "ActionEnqueue" /\ off = 1 /\ Len(buf) - off = 15
  /\ dec.status = "TruncatedBufferError" /\ dec.rec = <<>> /\ dec.offset = 1

(***************************************************************************)
(* C6: range check.  As claimed: packing any record in which some integer  *)
(* field holds a value outside [0, 2^N - 1] fails with RangeError and      *)
(* produces no bytes.                                                      *)
(***************************************************************************)
C6_Original ==
  (Packed /\ \E i \in 1..Len(Fields(cls)) : OutOfRange(cls, rec, i))
    => (wire.status = "RangeError" /\ wire.bytes = <<>>)

(***************************************************************************)
(* C6 as amended: packing a record in which every field is assigned and    *)
(* some integer field is outside its range, no array field declared before *)
(* it having a wrong length, fails with RangeError and produces no bytes;  *)
(* so does ActionOutput(0, 8, 5, max_length = 70000).                      *)
(***************************************************************************)
C6_Range ==
  /\ (/\ Packed
      /\ \A f \in DOMAIN rec : ~IsNone(rec[f])
      /\ \E i \in 1..Len(Fields(cls)) :
           OutOfRange(cls, rec, i) /\ \A j \in 1..(i - 1) : ~WrongLength(cls, rec, j))
       => (wire.status = "RangeError" /\ wire.bytes = <<>>)
  /\ (Packed /\ cls = "ActionOutput" /\ rec = ActionOutput_init(Some(0), Some(8), Some(5), Some(70000)))
       => (wire.status = "RangeError" /\ wire.bytes = <<>>)

C6_Witness ==
  /\ pc = "packed" /\ cls = "ActionOutput"
  /\ rec = ActionOutput_init(Some(0), Some(8), Some(5), Some(70000))
  /\ wire.status = "RangeError" /\ wire.bytes = <<>>

(***************************************************************************)
(* C7: incomplete records.  Packing a record in which any field was never  *)
(* assigned fails with IncompleteRecordError and produces no bytes: an     *)
(* unset field is never packed as zero.                                    *)
(***************************************************************************)
C7_Incomplete ==
  (Packed /\ \E f \in DOMAIN rec : IsNone(rec[f]))
    => (wire.status = "IncompleteRecordError" /\ wire.bytes = <<>>)

C7_Witness ==
  /\ pc = "packed" /\ cls = "ActionOutput"
  /\ rec = ActionOutput_init(None, None, None, None)
  /\ wire.status = "IncompleteRecordError" /\ wire.bytes = <<>>

(***************************************************************************)
(* C8: padding.  In the bytes of every successful pack every padding       *)
(* position holds zero, whatever was given for the pad field; and a whole  *)
(* record with padding that is not zero is unpacked, not refused.          *)
(***************************************************************************)
C8_Padding ==
  /\ (Packed /\ wire.status = "ok") => \A i \in PadPositions(cls) : wire.bytes[i] = 0
  /\ (pc = "unpacked" /\ dec.by = "unpack" /\ WholeRecord) => dec.status = "ok"

(***************************************************************************)
(* C9: tag and layout agree.  The type field of every record that is       *)
(* packed is one the dispatch table maps to the record's own class (the    *)
(* header, common to all the actions, aside).                              *)
(***************************************************************************)
C9_TagLayout ==
  (Packed /\ wire.status = "ok" /\ cls # "ActionHeader")
    => /\ Val(rec["ofpat_type"]) \in ActionType
       /\ DispatchTable(Val(rec["ofpat_type"])) = cls

(***************************************************************************)
(* C10: wire layout.  Pack writes the fields in declaration order, each    *)
(* integer most significant byte first: the type is in bytes 0-1 and the   *)
(* length in bytes 2-3 of every record, and the three records of section 8 *)
(* pack to the bytes given there.                                          *)
(***************************************************************************)
C10_Layout ==
  /\ (Packed /\ wire.status = "ok")
       => /\ wire.bytes[1] * 256 + wire.bytes[2] = Val(rec["ofpat_type"])
          /\ wire.bytes[3] * 256 + wire.bytes[4] = Val(rec["length"])
  /\ (Packed /\ cls = "ActionOutput" /\ rec = ActionOutput_init(Some(0), Some(8), Some(5), Some(0)))
       => wire = Ok(<<0, 0, 0, 8, 0, 5, 0, 0>>)
  /\ (Packed /\ cls = "ActionVlanVid" /\ rec = ActionVlanVid_init(Some(1), Some(8), Some(100), Some(<<0, 0>>)))
       => wire = Ok(<<0, 1, 0, 8, 0, 100, 0, 0>>)
  /\ (Packed /\ cls = "ActionDLAddr" /\ rec = ActionDLAddr_init(Some(4), Some(16), Some(<<170, 187, 204, 221, 238, 255>>), Some(Zeros(6))))
       => wire = Ok(<<0, 4, 0, 16, 170, 187, 204, 221, 238, 255, 0, 0, 0, 0, 0, 0>>)
  /\ (Packed /\ cls = "ActionEnqueue" /\ rec = ActionEnqueue_init(Some(11), Some(16), Some(1), Some(Zeros(6)), Some(<<49320, 1>>)))
       => wire = Ok(<<0, 11, 0, 16, 0, 1, 0, 0, 0, 0, 0, 0, 192, 168, 0, 1>>)

C10_Witness ==
  /\ pc = "packed" /\ cls = "ActionOutput"
  /\ rec = ActionOutput_init(Some(0), Some(8), Some(5), Some(0))
  /\ wire = Ok(<<0, 0, 0, 8, 0, 5, 0, 0>>)

====
